---------------------------- MODULE Spec2Model ----------------------------
(***************************************************************************)
(* Remote machine synchronisation of plures/xstate:                        *)
(*   - the synchronisation client, useRemoteMachine (svelte/store) and     *)
(*     useRemoteMachineRunes (Svelte 5 runes);                             *)
(*   - the relay, PubSubBroker, with its attached webview panels;          *)
(*   - the authoritative adapter, wireAppMachineToBroker.                  *)
(*                                                                         *)
(* SpecClient drives one client with arbitrary broadcasts (any order, with *)
(* duplicates).  Spec is the wired system: broker, adapter, webview        *)
(* clients behind postMessage queues and in-process clients.               *)
(***************************************************************************)
EXTENDS Integers, Sequences, FiniteSets, TLC

(***************************************************************************)
(* Bounds of the model.                                                    *)
(***************************************************************************)
MaxServerSeq == 5      \* serverSeq values SpecClient's transport delivers
MaxSends == 3          \* send() calls per client instance
MaxTotalSends == 2     \* Spec: send() calls of all clients together
MaxRequests == 1       \* Spec: requestSnapshot() calls of all clients together
MaxInFlight == 2       \* SpecRelay: messages under way between a webview and the host

(***************************************************************************)
(* Values.                                                                 *)
(***************************************************************************)
\* `null`, the base state of a client created without initialSnapshot.
Null == [tag |-> "null"]

\* The number 0: a TSnapshot that JavaScript treats as falsy.
Zero == [tag |-> "number", value |-> 0]

\* An absent optional number (echoClientSeq?, lastClientSeq: number | undefined).
undefined == -1

\* The machine's context as a snapshot; `pending` is optimistic?.pending ?? false.
Snapshot(clickCount, label) ==
    [clickCount |-> clickCount, label |-> label, pending |-> FALSE]

InitialLabel == "Click Me"
NewLabel == "Renamed"

\* The context createAppMachine starts with.
InitialContext == Snapshot(0, InitialLabel)

\* The machine's events (updateLabel renames button1).
MachineEvents == {"click", "updateLabel", "reset"}

\* JavaScript's !v on the values of the model.
Falsy(v) == v = Null \/ v = Zero

(***************************************************************************)
(* The transition of the machine: incrementClickCount, updateButtonLabel   *)
(* and resetClickCount; an event the machine does not handle changes       *)
(* nothing.                                                                *)
(***************************************************************************)
Transition(ctx, event) ==
    CASE event = "click" -> [ctx EXCEPT !.clickCount = @ + 1]
      [] event = "updateLabel" -> [ctx EXCEPT !.label = NewLabel]
      [] event = "reset" -> [ctx EXCEPT !.clickCount = 0]
      [] OTHER -> ctx

(***************************************************************************)
(* The optimistic reducer handed to the client, optimisticReducer: on a    *)
(* click it returns {...snapshot, optimistic: {pending: true}}, which for  *)
(* a snapshot without properties of its own is the flag alone; any other   *)
(* event returns the snapshot.                                             *)
(***************************************************************************)
Reducer(snapshot, event) ==
    IF event # "click" THEN snapshot
    ELSE IF snapshot \in {Null, Zero} THEN [pending |-> TRUE]
    ELSE [snapshot EXCEPT !.pending = TRUE]

(***************************************************************************)
(* The synchronisation client.                                             *)
(***************************************************************************)
\* useRemoteMachine, useRemoteMachineRunes with runes.derived, and without it.
Kinds == {"store", "runes", "runesNoDerived"}

\* The state a client is constructed with: connectionChanges counts the times
\* handleSnapshot reached its call of onConnectionChange; reducer and
\* onConnectionChange name the functions the options hold; returned is whether
\* the constructor has returned the API.
NewClient(kind, optimistic, initialSnapshot) ==
    [kind |-> kind,
     optimistic |-> optimistic,
     baseState |-> initialSnapshot,
     connected |-> FALSE,
     pendingEvents |-> <<>>,
     pendingCountRune |-> 0,
     clientSeqCounter |-> 0,
     lastServerSeq |-> -1,
     connectionChanges |-> 0,
     reducer |-> "optimisticReducer",
     onConnectionChange |-> "none",
     returned |-> TRUE]

\* pending.reduce((acc, {event}) => optimistic.reducer(acc, event), base)
RECURSIVE Reduce(_, _)
Reduce(pending, base) ==
    IF pending = <<>> THEN base
    ELSE Reduce(Tail(pending), Reducer(base, Head(pending).event))

\* The outcome of an evaluation that throws.
Thrown == [tag |-> "thrown"]

\* A reducer that predicts the click as optimisticReducer does and throws on
\* an event it has no prediction for.
StrictReducer(snapshot, event) ==
    IF event = "click" THEN Reducer(snapshot, event) ELSE Thrown

\* pending.reduce(...) with StrictReducer: a throw ends the evaluation.
RECURSIVE ReduceStrict(_, _)
ReduceStrict(pending, base) ==
    IF pending = <<>> THEN base
    ELSE LET acc == StrictReducer(base, Head(pending).event)
         IN IF acc = Thrown THEN Thrown ELSE ReduceStrict(Tail(pending), acc)

\* The derived store / rune `state`, as reading it evaluates it.
DerivedState(cl) ==
    IF Falsy(cl.baseState) THEN Null
    ELSE IF ~cl.optimistic \/ Len(cl.pendingEvents) = 0 THEN cl.baseState
    ELSE IF cl.reducer = "strict" THEN ReduceStrict(cl.pendingEvents, cl.baseState)
    ELSE Reduce(cl.pendingEvents, cl.baseState)

\* What the API exposes as `state`: without runes.derived, the base rune.
VisibleState(cl) ==
    IF cl.kind = "runesNoDerived" THEN cl.baseState ELSE DerivedState(cl)

\* What the API exposes as `pendingCount`.
PendingCount(cl) ==
    IF cl.kind = "runesNoDerived" THEN cl.pendingCountRune
    ELSE Len(cl.pendingEvents)

\* A filter that keeps the acknowledged entry itself.
FilterAcknowledgedBelow(pending, echoClientSeq) ==
    SelectSeq(pending, LAMBDA e : e.clientSeq >= echoClientSeq)

\* A filter that retires the acknowledged entry alone.
FilterAcknowledgedOnly(pending, echoClientSeq) ==
    SelectSeq(pending, LAMBDA e : e.clientSeq # echoClientSeq)

\* pending.filter((e) => e.clientSeq > echoClientSeq)
FilterAcknowledged(pending, echoClientSeq) ==
    SelectSeq(pending, LAMBDA e : e.clientSeq > echoClientSeq)

\* A guard that lets a broadcast through again when its version is the one
\* applied last.
IsStaleStrict(serverSeq, lastServerSeq) == serverSeq < lastServerSeq

\* The guard of handleSnapshot: a broadcast that is not newer is dropped.
IsStale(serverSeq, lastServerSeq) == serverSeq <= lastServerSeq

\* handleSnapshot past its guard.
AcceptSnapshot(cl, remoteSnapshot) ==
    LET pending ==
            IF remoteSnapshot.echoClientSeq # undefined
            THEN FilterAcknowledged(cl.pendingEvents, remoteSnapshot.echoClientSeq)
            ELSE cl.pendingEvents
    IN [cl EXCEPT
          !.lastServerSeq = remoteSnapshot.serverSeq,
          !.baseState = remoteSnapshot.snapshot,
          !.pendingEvents = pending,
          !.pendingCountRune =
              IF cl.kind = "runesNoDerived" /\ remoteSnapshot.echoClientSeq # undefined
              THEN Len(pending) ELSE @,
          !.connected = TRUE,
          !.connectionChanges = IF cl.connected THEN @ ELSE @ + 1]

\* A handler that retires the acknowledged entries before it looks at the
\* version.
HandleSnapshotAckFirst(cl, remoteSnapshot) ==
    LET acked == IF remoteSnapshot.echoClientSeq # undefined
                 THEN [cl EXCEPT !.pendingEvents =
                          FilterAcknowledged(@, remoteSnapshot.echoClientSeq)]
                 ELSE cl
    IN IF IsStale(remoteSnapshot.serverSeq, cl.lastServerSeq)
       THEN acked
       ELSE AcceptSnapshot(acked, remoteSnapshot)

\* handleSnapshot.
HandleSnapshot(cl, remoteSnapshot) ==
    IF IsStale(remoteSnapshot.serverSeq, cl.lastServerSeq) THEN cl
    ELSE AcceptSnapshot(cl, remoteSnapshot)

\* A send that numbers the event before it advances the counter.
EnqueuePostIncrement(cl, event) ==
    LET seq == cl.clientSeqCounter
        pending == Append(cl.pendingEvents, [event |-> event, clientSeq |-> seq])
    IN [cl EXCEPT
          !.clientSeqCounter = seq + 1,
          !.pendingEvents = pending,
          !.pendingCountRune =
              IF cl.kind = "runesNoDerived" THEN Len(pending) ELSE @]

\* A send that writes its prediction into the base state.
EnqueueApplied(cl, event) ==
    LET seq == cl.clientSeqCounter + 1
        pending == Append(cl.pendingEvents, [event |-> event, clientSeq |-> seq])
    IN [cl EXCEPT
          !.clientSeqCounter = seq,
          !.baseState = Reducer(@, event),
          !.pendingEvents = pending,
          !.pendingCountRune =
              IF cl.kind = "runesNoDerived" THEN Len(pending) ELSE @]

\* A send that leaves the manually kept pending count as it was.
EnqueueUncounted(cl, event) ==
    LET seq == cl.clientSeqCounter + 1
    IN [cl EXCEPT
          !.clientSeqCounter = seq,
          !.pendingEvents = Append(@, [event |-> event, clientSeq |-> seq])]

\* send, up to its call of publishEventFn: the client with the event queued.
Enqueue(cl, event) ==
    LET seq == cl.clientSeqCounter + 1
        pending == Append(cl.pendingEvents, [event |-> event, clientSeq |-> seq])
    IN [cl EXCEPT
          !.clientSeqCounter = seq,
          !.pendingEvents = pending,
          !.pendingCountRune =
              IF cl.kind = "runesNoDerived" THEN Len(pending) ELSE @]

(***************************************************************************)
(* State.                                                                  *)
(***************************************************************************)
VARIABLES
    clients,            \* client id -> the state of a created client
    retainedSnapshots,  \* PubSubBroker: topic -> the payload retained for it
    topicHandlers,      \* PubSubBroker: topic -> its handlers, in the order added
    webviews,           \* PubSubBroker: the attached panels, in the order added
    listeners,          \* the panels whose onDidReceiveMessage has the broker's listener
    wired,              \* whether wireAppMachineToBroker has run
    actorState,         \* the actor's snapshot: the authoritative state
    serverSeqCounter,   \* wireAppMachineToBroker: serverSeqCounter
    lastClientSeq,      \* wireAppMachineToBroker: lastClientSeq
    toWebview,          \* panel -> the messages posted to its webview, not yet handled
    toHost,             \* panel -> the messages its webview posted, not yet handled
    applied,            \* history: the envelopes the adapter applied, in order
    published,          \* history: the number of payloads publishSnapshot published
    lastBroadcast,      \* history: the last payload publishSnapshot published
    lastCause,          \* history: what the last call of publishSnapshot answered
    requestsReceived,   \* history: the number of snapshot requests the adapter received
    replayed,           \* history: the subscribers handed a retained payload on attaching
    requestsIssued,     \* history: the number of requestSnapshot() calls
    lastDelivery,       \* SpecClient, history: what the transport did last
    accepted,           \* SpecClient, history: the versions accepted, in order
    lastDropped         \* SpecClient, history: the version dropped last

clientHistory == <<lastDelivery, accepted, lastDropped>>

system == <<retainedSnapshots, topicHandlers, webviews, listeners, wired, actorState,
            serverSeqCounter, lastClientSeq, toWebview, toHost, applied,
            published, lastBroadcast, lastCause, requestsReceived, replayed,
            requestsIssued>>

vars == <<clients, system, clientHistory>>

(***************************************************************************)
(* The relay (PubSubBroker), its panels, and the adapter                   *)
(* (wireAppMachineToBroker).  publish and subscribe run their handlers     *)
(* before they return, and a handler may publish in turn: each is an       *)
(* operator from the state before the call to the state after it.          *)
(***************************************************************************)
SnapshotTopic == "machine:app:snapshot"
EventsTopic == "machine:app:events"
RequestTopic == "machine:app:request-snapshot"

\* topic.includes(':snapshot'), on the three topics of the machine.
IsSnapshotTopic(topic) == topic = SnapshotTopic

\* The clients in a webview, one per panel (the panel bears the client's name),
\* and the clients in the extension host, subscribed to the broker itself.
WebClients == {"w1"}
DirectClients == {"d"}
Panels == WebClients

\* The handlers the adapter subscribes.
EventsHandler == "adapter:events"
RequestHandler == "adapter:request"

\* The payload of a snapshot request.
RequestPayload == [timestamp |-> 0]

NoBroadcast == [serverSeq |-> 0]

\* The state the calls below work on; thrown is whether an exception is on its
\* way up the calls.
Now ==
    [clients |-> clients,
     retainedSnapshots |-> retainedSnapshots,
     topicHandlers |-> topicHandlers,
     webviews |-> webviews,
     actorState |-> actorState,
     serverSeqCounter |-> serverSeqCounter,
     lastClientSeq |-> lastClientSeq,
     toWebview |-> toWebview,
     applied |-> applied,
     published |-> published,
     lastBroadcast |-> lastBroadcast,
     lastCause |-> lastCause,
     requestsReceived |-> requestsReceived,
     replayed |-> replayed,
     thrown |-> FALSE]

\* The state after the calls of an action.
Becomes(st) ==
    \E s \in {st} :
        /\ clients' = s.clients
        /\ retainedSnapshots' = s.retainedSnapshots
        /\ topicHandlers' = s.topicHandlers
        /\ webviews' = s.webviews
        /\ actorState' = s.actorState
        /\ serverSeqCounter' = s.serverSeqCounter
        /\ lastClientSeq' = s.lastClientSeq
        /\ toWebview' = s.toWebview
        /\ applied' = s.applied
        /\ published' = s.published
        /\ lastBroadcast' = s.lastBroadcast
        /\ lastCause' = s.lastCause
        /\ requestsReceived' = s.requestsReceived
        /\ replayed' = s.replayed

Contains(seq, x) == \E i \in 1..Len(seq) : seq[i] = x

\* Set.add on a set kept in insertion order.
SetAdd(seq, x) == IF Contains(seq, x) THEN seq ELSE Append(seq, x)

\* Set.delete on a set kept in insertion order.
SetDelete(seq, x) == SelectSeq(seq, LAMBDA y : y # x)

\* this.topicHandlers.get(topic), none as the empty sequence.
HandlersOf(st, topic) ==
    IF topic \in DOMAIN st.topicHandlers THEN st.topicHandlers[topic] ELSE <<>>

\* panel.webview.postMessage(message)
PostMessage(st, panel, message) ==
    [st EXCEPT !.toWebview[panel] = Append(@, message)]

\* this.webviews.forEach(panel => panel.webview.postMessage(message))
RECURSIVE PostToWebviews(_, _, _)
PostToWebviews(st, panels, message) ==
    IF panels = <<>> THEN st
    ELSE PostToWebviews(PostMessage(st, Head(panels), message), Tail(panels), message)

RECURSIVE Publish(_, _, _)
RECURSIVE CallHandlers(_, _, _)
RECURSIVE CallHandler(_, _, _)
RECURSIVE PublishSnapshot(_, _, _)

\* An event that is no event object, the string 'click': actor.send throws on
\* it.
BadEvent == "'click'"

\* Whether actor.send(event) throws.
SendThrows(event) == event = BadEvent

\* The onConnectionChange of a client that asks for a snapshot the first time
\* it is called, once the API exists.
OnConnectionChange(st, c) ==
    IF /\ st.clients[c].onConnectionChange = "requestSnapshot"
       /\ st.clients[c].connectionChanges = 1
       /\ st.clients[c].returned
    THEN Publish(st, RequestTopic, RequestPayload)
    ELSE st

\* handleSnapshot of a client on the broker.  Where it reaches its call of
\* onConnectionChange, the callback runs before handleSnapshot returns:
\* useRemoteMachine calls it inside connected.update, before the store holds
\* true; useRemoteMachineRunes calls it after it set the rune.
Notify(st, h, data) ==
    LET cl == st.clients[h]
        acc == HandleSnapshot(cl, data)
    IN IF acc.connectionChanges = cl.connectionChanges
       THEN [st EXCEPT !.clients[h] = acc]
       ELSE LET before == IF cl.kind = "store"
                          THEN [acc EXCEPT !.connected = FALSE]
                          ELSE acc
                called == OnConnectionChange([st EXCEPT !.clients[h] = before], h)
            IN IF called.thrown THEN called
               ELSE [called EXCEPT !.clients[h].connected = TRUE]

\* A handler that publishes the snapshot it reads before it sends the event.
OnEventPublishFirst(st, data) ==
    LET done == PublishSnapshot([st EXCEPT !.lastClientSeq = data.clientSeq],
                                st.actorState, data.clientSeq)
    IN [done EXCEPT !.actorState = Transition(@, data.event),
                    !.applied = Append(@, data),
                    !.lastCause = "event"]

\* A handler that drops an envelope whose clientSeq it has seen.
OnEventDeduplicated(st, data) ==
    IF st.lastClientSeq # undefined /\ data.clientSeq <= st.lastClientSeq
    THEN st
    ELSE LET sent == [st EXCEPT
                        !.lastClientSeq = data.clientSeq,
                        !.actorState = Transition(@, data.event),
                        !.applied = Append(@, data)]
             done == PublishSnapshot(sent, sent.actorState, data.clientSeq)
         IN [done EXCEPT !.lastCause = "event"]

\* The adapter's handler of the events topic: when actor.send throws, nothing
\* after it runs.
OnEvent(st, data) ==
    IF SendThrows(data.event)
    THEN [st EXCEPT !.lastClientSeq = data.clientSeq, !.thrown = TRUE]
    ELSE LET sent == [st EXCEPT
                        !.lastClientSeq = data.clientSeq,
                        !.actorState = Transition(@, data.event),
                        !.applied = Append(@, data)]
             done == PublishSnapshot(sent, sent.actorState, data.clientSeq)
         IN [done EXCEPT !.lastCause = "event"]

\* A handler that answers a request without the acknowledgment.
OnSnapshotRequestNoEcho(st) ==
    LET done == PublishSnapshot(st, st.actorState, undefined)
    IN [done EXCEPT !.lastCause = "request", !.requestsReceived = @ + 1]

\* The adapter's handler of the request-snapshot topic.
OnSnapshotRequest(st) ==
    LET done == PublishSnapshot(st, st.actorState, st.lastClientSeq)
    IN [done EXCEPT !.lastCause = "request", !.requestsReceived = @ + 1]

\* A publishSnapshot that advances the version for acknowledging broadcasts only.
PublishSnapshotOnAction(st, snapshot, echoClientSeq) ==
    LET next == IF echoClientSeq # undefined
                THEN st.serverSeqCounter + 1
                ELSE st.serverSeqCounter
        remoteSnapshot == [snapshot |-> snapshot,
                           serverSeq |-> next,
                           echoClientSeq |-> echoClientSeq]
    IN Publish([st EXCEPT
                  !.serverSeqCounter = next,
                  !.published = @ + 1,
                  !.lastBroadcast = remoteSnapshot],
               SnapshotTopic, remoteSnapshot)

\* publishSnapshot
PublishSnapshot(st, snapshot, echoClientSeq) ==
    LET remoteSnapshot == [snapshot |-> snapshot,
                           serverSeq |-> st.serverSeqCounter + 1,
                           echoClientSeq |-> echoClientSeq]
    IN Publish([st EXCEPT
                  !.serverSeqCounter = @ + 1,
                  !.published = @ + 1,
                  !.lastBroadcast = remoteSnapshot],
               SnapshotTopic, remoteSnapshot)

\* A handler of the broker called with a payload: the adapter's two, or the
\* handleSnapshot of a client in the extension host.
CallHandler(st, handler, data) ==
    CASE handler = EventsHandler -> OnEvent(st, data)
      [] handler = RequestHandler -> OnSnapshotRequest(st)
      [] OTHER -> Notify(st, handler, data)

\* handlers.forEach(handler => handler(data)): a handler that throws ends it.
CallHandlers(st, handlers, data) ==
    IF handlers = <<>> \/ st.thrown THEN st
    ELSE CallHandlers(CallHandler(st, Head(handlers), data), Tail(handlers), data)

\* PubSubBroker.publish: the snapshot is retained, the handlers are called,
\* and what they left is posted to the webviews.
Publish(st, topic, data) ==
    LET kept == IF IsSnapshotTopic(topic)
                THEN [st EXCEPT !.retainedSnapshots = (topic :> data) @@ @]
                ELSE st
        Post(handled) ==
            IF handled.thrown THEN handled
            ELSE PostToWebviews(handled, handled.webviews,
                                [type |-> "publish", topic |-> topic, data |-> data])
    IN CHOOSE posted \in
           {Post(handled) :
               handled \in {CallHandlers(kept, HandlersOf(kept, topic), data)}} : TRUE

\* A subscribe that only adds the handler.
SubscribeNoReplay(st, topic, handler) ==
    [st EXCEPT !.topicHandlers =
        (topic :> SetAdd(HandlersOf(st, topic), handler)) @@ @]

\* PubSubBroker.subscribe
Subscribe(st, topic, handler) ==
    LET added == [st EXCEPT !.topicHandlers =
                     (topic :> SetAdd(HandlersOf(st, topic), handler)) @@ @]
    IN IF topic \in DOMAIN added.retainedSnapshots
       THEN CallHandler([added EXCEPT !.replayed = @ \cup {handler}],
                        handler, added.retainedSnapshots[topic])
       ELSE added

\* An unsubscribe that also forgets the payload retained for a topic left
\* without handlers.
RemoveHandlerAndRetained(st, topic, handler) ==
    LET left == SetDelete(HandlersOf(st, topic), handler)
    IN IF left = <<>>
       THEN [st EXCEPT
               !.topicHandlers = [t \in DOMAIN @ \ {topic} |-> @[t]],
               !.retainedSnapshots = [t \in DOMAIN @ \ {topic} |-> @[t]]]
       ELSE [st EXCEPT !.topicHandlers[topic] = left]

\* The function subscribe returns: handlers.delete(handler), and the topic's
\* entry with it when no handler is left.
RemoveHandler(st, topic, handler) ==
    LET left == SetDelete(HandlersOf(st, topic), handler)
    IN IF left = <<>>
       THEN [st EXCEPT !.topicHandlers = [t \in DOMAIN @ \ {topic} |-> @[t]]]
       ELSE [st EXCEPT !.topicHandlers[topic] = left]

\* this.retainedSnapshots.forEach((snapshot, topic) => panel.webview.postMessage(..))
PostRetained(st, panel) ==
    IF SnapshotTopic \in DOMAIN st.retainedSnapshots
    THEN PostMessage([st EXCEPT !.replayed = @ \cup {panel}], panel,
                     [type |-> "publish", topic |-> SnapshotTopic,
                      data |-> st.retainedSnapshots[SnapshotTopic]])
    ELSE st

(***************************************************************************)
(* Spec: the wired system.                                                 *)
(***************************************************************************)
\* The events the clients of Spec send.
HostEvents == {"click", "reset"}

\* The broker, the adapter and the panels before anything was done with them.
InitSystem ==
    /\ retainedSnapshots = <<>>
    /\ topicHandlers = <<>>
    /\ webviews = <<>>
    /\ listeners = {}
    /\ wired = FALSE
    /\ actorState = InitialContext
    /\ serverSeqCounter = 0
    /\ lastClientSeq = undefined
    /\ toWebview = [p \in Panels |-> <<>>]
    /\ toHost = [p \in Panels |-> <<>>]
    /\ applied = <<>>
    /\ published = 0
    /\ lastBroadcast = NoBroadcast
    /\ lastCause = "none"
    /\ requestsReceived = 0
    /\ replayed = {}
    /\ requestsIssued = 0

NoDelivery == [op |-> "none"]

Init ==
    /\ clients = <<>>
    /\ InitSystem
    /\ lastDelivery = NoDelivery
    /\ accepted = <<>>
    /\ lastDropped = undefined

\* The send() calls of all clients so far.
RECURSIVE SumOfSends(_)
SumOfSends(ids) ==
    IF ids = {} THEN 0
    ELSE LET c == CHOOSE x \in ids : TRUE
         IN clients[c].clientSeqCounter + SumOfSends(ids \ {c})

MaySend(c) ==
    /\ c \in DOMAIN clients
    /\ clients[c].clientSeqCounter < MaxSends
    /\ SumOfSends(DOMAIN clients) < MaxTotalSends

\* The envelope send() publishes; origin, which no code reads, names the sender.
Envelope(c, event) ==
    [event |-> event, clientSeq |-> clients[c].clientSeqCounter + 1, origin |-> c]

\* wireAppMachineToBroker
WireAppMachineToBroker ==
    /\ ~wired
    /\ wired' = TRUE
    /\ LET events == Subscribe(Now, EventsTopic, EventsHandler)
           requests == Subscribe(events, RequestTopic, RequestHandler)
           started == PublishSnapshot(requests, requests.actorState, undefined)
       IN Becomes([started EXCEPT !.lastCause = "initial"])
    /\ UNCHANGED <<listeners, toHost, requestsIssued, clientHistory>>

\* PubSubBroker.attachWebviewPanel, once for a panel.
AttachWebviewPanel(panel) ==
    /\ panel \notin listeners
    /\ listeners' = listeners \cup {panel}
    /\ Becomes(PostRetained([Now EXCEPT !.webviews = SetAdd(@, panel)], panel))
    /\ UNCHANGED <<wired, toHost, requestsIssued, clientHistory>>

\* The cleanup function attachWebviewPanel returned is called: the panel leaves
\* the set, its listener stays.
DetachWebviewPanel(panel) ==
    /\ Contains(webviews, panel)
    /\ webviews' = SetDelete(webviews, panel)
    /\ UNCHANGED <<clients, retainedSnapshots, topicHandlers, listeners, wired,
                   actorState, serverSeqCounter, lastClientSeq, toWebview, toHost,
                   applied, published, lastBroadcast, lastCause, requestsReceived,
                   replayed,
                   requestsIssued, clientHistory>>

\* A webview creates its client, as WebviewButtonRune does: useRemoteMachineRunes
\* with an optimistic reducer, subscribed through a WebviewPubSubAdapter.
CreateWebviewClient(w) ==
    /\ w \notin DOMAIN clients
    /\ w \in listeners
    /\ clients' = clients @@ (w :> NewClient("runes", TRUE, Null))
    /\ UNCHANGED <<system, clientHistory>>

\* The extension host creates a client on the broker: useRemoteMachinePubSub.
CreateDirectClient(d) ==
    /\ d \notin DOMAIN clients
    /\ LET new == [NewClient("store", FALSE, Null) EXCEPT !.returned = FALSE]
           subscribed == Subscribe([Now EXCEPT !.clients = @ @@ (d :> new)],
                                   SnapshotTopic, d)
       IN Becomes([subscribed EXCEPT !.clients[d].returned = TRUE])
    /\ UNCHANGED <<listeners, wired, toHost, requestsIssued, clientHistory>>

\* The function subscribe returned for the handler of a client is called.
Unsubscribe(d) ==
    /\ d \in DOMAIN clients
    /\ Contains(HandlersOf(Now, SnapshotTopic), d)
    /\ Becomes(RemoveHandler(Now, SnapshotTopic, d))
    /\ UNCHANGED <<listeners, wired, toHost, requestsIssued, clientHistory>>

\* A send that publishes the client's own versioned payload on the snapshot
\* topic.
WebviewSendSnapshot(w, event) ==
    /\ MaySend(w)
    /\ clients' = [clients EXCEPT ![w] = Enqueue(@, event)]
    /\ toHost' = [toHost EXCEPT ![w] =
                     Append(@, [type |-> "publish", topic |-> SnapshotTopic,
                                data |-> [snapshot |-> InitialContext,
                                          serverSeq |-> clients[w].lastServerSeq + 1,
                                          echoClientSeq |-> clients[w].clientSeqCounter + 1]])]
    /\ UNCHANGED <<retainedSnapshots, topicHandlers, webviews, listeners, wired, actorState,
                   serverSeqCounter, lastClientSeq, toWebview, applied, published,
                   lastBroadcast, lastCause, requestsReceived,
                   replayed, requestsIssued, clientHistory>>

\* send(event) of a client in a webview: the envelope is posted to the host.
WebviewSend(w, event) ==
    /\ MaySend(w)
    /\ clients' = [clients EXCEPT ![w] = Enqueue(@, event)]
    /\ toHost' = [toHost EXCEPT ![w] =
                     Append(@, [type |-> "publish", topic |-> EventsTopic,
                                data |-> Envelope(w, event)])]
    /\ UNCHANGED <<retainedSnapshots, topicHandlers, webviews, listeners, wired, actorState,
                   serverSeqCounter, lastClientSeq, toWebview, applied, published,
                   lastBroadcast, lastCause, requestsReceived,
                   replayed, requestsIssued, clientHistory>>

\* A send that publishes the envelope before it queues the event.
DirectSendPublishFirst(d, event) ==
    /\ MaySend(d)
    /\ LET sent == Publish(Now, EventsTopic, Envelope(d, event))
       IN Becomes([sent EXCEPT !.clients[d] = Enqueue(@, event)])
    /\ UNCHANGED <<listeners, wired, toHost, requestsIssued, clientHistory>>

\* send(event) of a client in the extension host: broker.publish runs at once.
DirectSend(d, event) ==
    /\ MaySend(d)
    /\ Becomes(Publish([Now EXCEPT !.clients[d] = Enqueue(@, event)],
                       EventsTopic, Envelope(d, event)))
    /\ UNCHANGED <<listeners, wired, toHost, requestsIssued, clientHistory>>

\* requestSnapshot() of a client in a webview.
WebviewRequestSnapshot(w) ==
    /\ w \in DOMAIN clients
    /\ requestsIssued < MaxRequests
    /\ requestsIssued' = requestsIssued + 1
    /\ toHost' = [toHost EXCEPT ![w] =
                     Append(@, [type |-> "publish", topic |-> RequestTopic,
                                data |-> RequestPayload])]
    /\ UNCHANGED <<clients, retainedSnapshots, topicHandlers, webviews, listeners, wired,
                   actorState, serverSeqCounter, lastClientSeq, toWebview, applied,
                   published, lastBroadcast, lastCause, requestsReceived,
                   replayed, clientHistory>>

\* requestSnapshot() of a client in the extension host.
DirectRequestSnapshot(d) ==
    /\ d \in DOMAIN clients
    /\ requestsIssued < MaxRequests
    /\ requestsIssued' = requestsIssued + 1
    /\ Becomes(Publish(Now, RequestTopic, RequestPayload))
    /\ UNCHANGED <<listeners, wired, toHost, clientHistory>>

\* The listener attachWebviewPanel registered with onDidReceiveMessage gets the
\* next message of the panel's webview.
HostReceive(panel) ==
    /\ panel \in listeners
    /\ toHost[panel] # <<>>
    /\ toHost' = [toHost EXCEPT ![panel] = Tail(@)]
    /\ LET message == Head(toHost[panel])
       IN IF message.type = "publish"
          THEN Becomes(Publish(Now, message.topic, message.data))
          ELSE Becomes(Now)
    /\ UNCHANGED <<listeners, wired, requestsIssued, clientHistory>>

\* The message listener of the WebviewPubSubAdapter gets the next message the
\* host posted: it goes to the handlers subscribed to its topic, if any.
WebviewReceive(panel) ==
    /\ toWebview[panel] # <<>>
    /\ toWebview' = [toWebview EXCEPT ![panel] = Tail(@)]
    /\ LET message == Head(toWebview[panel])
       IN clients' =
             IF /\ panel \in DOMAIN clients
                /\ message.type = "publish"
                /\ message.topic = SnapshotTopic
             THEN [clients EXCEPT ![panel] = HandleSnapshot(@, message.data)]
             ELSE clients
    /\ UNCHANGED <<retainedSnapshots, topicHandlers, webviews, listeners, wired, actorState,
                   serverSeqCounter, lastClientSeq, toHost, applied, published,
                   lastBroadcast, lastCause, requestsReceived,
                   replayed, requestsIssued, clientHistory>>

Next ==
    \/ WireAppMachineToBroker
    \/ \E p \in Panels : AttachWebviewPanel(p)
    \/ \E w \in WebClients : CreateWebviewClient(w)
    \/ \E d \in DirectClients : CreateDirectClient(d)
    \/ \E w \in WebClients, e \in HostEvents : WebviewSend(w, e)
    \/ \E d \in DirectClients, e \in HostEvents : DirectSend(d, e)
    \/ \E w \in WebClients : WebviewRequestSnapshot(w)
    \/ \E d \in DirectClients : DirectRequestSnapshot(d)
    \/ \E p \in Panels : HostReceive(p)
    \/ \E p \in Panels : WebviewReceive(p)

Spec == Init /\ [][Next]_vars

(***************************************************************************)
(* SpecDetach: the wired system with panels detached and handlers          *)
(* unsubscribed.                                                           *)
(***************************************************************************)
NextDetach ==
    \/ WireAppMachineToBroker
    \/ \E p \in Panels : AttachWebviewPanel(p)
    \/ \E w \in WebClients : CreateWebviewClient(w)
    \/ \E d \in DirectClients : CreateDirectClient(d)
    \/ \E w \in WebClients, e \in HostEvents : WebviewSend(w, e)
    \/ \E d \in DirectClients, e \in HostEvents : DirectSend(d, e)
    \/ \E p \in Panels : HostReceive(p)
    \/ \E p \in Panels : WebviewReceive(p)
    \/ \E p \in Panels : DetachWebviewPanel(p)
    \/ \E d \in DirectClients : Unsubscribe(d)

SpecDetach == Init /\ [][NextDetach]_vars

(***************************************************************************)
(* SpecLive: the wired system with reliable delivery in order.  A client   *)
(* sends once the adapter is subscribed, no panel is detached and no       *)
(* handler removed, and every message posted between a webview and the     *)
(* host is handled in the end: the message listeners are weakly fair.      *)
(***************************************************************************)
NextLive ==
    \/ WireAppMachineToBroker
    \/ \E p \in Panels : AttachWebviewPanel(p)
    \/ \E w \in WebClients : CreateWebviewClient(w)
    \/ \E d \in DirectClients : CreateDirectClient(d)
    \/ \E w \in WebClients, e \in HostEvents : wired /\ WebviewSend(w, e)
    \/ \E d \in DirectClients, e \in HostEvents : wired /\ DirectSend(d, e)
    \/ \E p \in Panels : HostReceive(p)
    \/ \E p \in Panels : WebviewReceive(p)

SpecLive ==
    /\ Init
    /\ [][NextLive]_vars
    /\ \A p \in Panels : WF_vars(HostReceive(p)) /\ WF_vars(WebviewReceive(p))

(***************************************************************************)
(* SpecFaulty: the wired system with what can go wrong in it: an envelope  *)
(* whose event makes actor.send throw, a prediction function that throws,  *)
(* and a client on the broker whose onConnectionChange asks for a          *)
(* snapshot.                                                               *)
(***************************************************************************)
\* The clients in the extension host created with an onConnectionChange.
CallbackClients == {"r"}

\* The events the webview clients of SpecFaulty send.
FaultyEvents == {"click", "reset", BadEvent}

\* useRemoteMachinePubSub with onConnectionChange in its options.
CreateCallbackClient(r) ==
    /\ r \notin DOMAIN clients
    /\ LET new == [NewClient("store", FALSE, Null) EXCEPT
                     !.onConnectionChange = "requestSnapshot",
                     !.returned = FALSE]
           subscribed == Subscribe([Now EXCEPT !.clients = @ @@ (r :> new)],
                                   SnapshotTopic, r)
       IN Becomes([subscribed EXCEPT !.clients[r].returned = TRUE])
    /\ UNCHANGED <<listeners, wired, toHost, requestsIssued, clientHistory>>

\* A webview creates its client with StrictReducer as its prediction.
CreateStrictWebviewClient(w) ==
    /\ w \notin DOMAIN clients
    /\ w \in listeners
    /\ clients' = clients @@
          (w :> [NewClient("runes", TRUE, Null) EXCEPT !.reducer = "strict"])
    /\ UNCHANGED <<system, clientHistory>>

NextFaulty ==
    \/ WireAppMachineToBroker
    \/ \E p \in Panels : AttachWebviewPanel(p)
    \/ \E w \in WebClients : CreateStrictWebviewClient(w)
    \/ \E r \in CallbackClients : CreateCallbackClient(r)
    \/ \E w \in WebClients, e \in FaultyEvents : WebviewSend(w, e)
    \/ \E p \in Panels : HostReceive(p)
    \/ \E p \in Panels : WebviewReceive(p)

SpecFaulty == Init /\ [][NextFaulty]_vars

(***************************************************************************)
(* SpecRelay: the broker with everything that reaches publish on the       *)
(* snapshot topic: the adapter's payloads, and the payloads a script in a  *)
(* webview hands to WebviewPubSubAdapter.publish, which the panel's        *)
(* listener forwards whatever their topic.                                 *)
(***************************************************************************)
\* The payloads a webview publishes on the snapshot topic.
RelayPayloads ==
    {[snapshot |-> InitialContext, serverSeq |-> v, echoClientSeq |-> undefined] :
        v \in 1..MaxServerSeq}

\* WebviewPubSubAdapter.publish(topic, data): the message is posted to the host.
WebviewPublish(panel, topic, data) ==
    /\ panel \in listeners
    /\ Len(toHost[panel]) + Len(toWebview[panel]) < MaxInFlight
    /\ toHost' = [toHost EXCEPT ![panel] =
                     Append(@, [type |-> "publish", topic |-> topic, data |-> data])]
    /\ UNCHANGED <<clients, retainedSnapshots, topicHandlers, webviews, listeners, wired,
                   actorState, serverSeqCounter, lastClientSeq, toWebview, applied,
                   published, lastBroadcast, lastCause, requestsReceived,
                   replayed, requestsIssued,
                   clientHistory>>

NextRelay ==
    \/ WireAppMachineToBroker
    \/ \E p \in Panels : AttachWebviewPanel(p)
    \/ \E w \in WebClients : CreateWebviewClient(w)
    \/ \E d \in DirectClients : CreateDirectClient(d)
    \/ \E p \in Panels, data \in RelayPayloads : WebviewPublish(p, SnapshotTopic, data)
    \/ \E p \in Panels : HostReceive(p)
    \/ \E p \in Panels : WebviewReceive(p)

SpecRelay == Init /\ [][NextRelay]_vars

(***************************************************************************)
(* SpecAdapter: the adapter behind a channel that delivers at least once:  *)
(* a webview publishes envelopes and snapshot requests, an envelope any    *)
(* number of times.                                                        *)
(***************************************************************************)
\* The envelopes a webview publishes on the events topic.
RelayEnvelopes(panel) ==
    {[event |-> e, clientSeq |-> k, origin |-> panel] :
        e \in HostEvents, k \in 1..MaxTotalSends}

\* Whether the adapter may still be handed a message: every message under way
\* makes it publish at most once.
MayPublish(panel) == published + Len(toHost[panel]) < MaxServerSeq

NextAdapter ==
    \/ WireAppMachineToBroker
    \/ \E p \in Panels : AttachWebviewPanel(p)
    \/ \E p \in Panels : \E data \in RelayEnvelopes(p) :
          MayPublish(p) /\ WebviewPublish(p, EventsTopic, data)
    \/ \E p \in Panels : MayPublish(p) /\ WebviewPublish(p, RequestTopic, RequestPayload)
    \/ \E p \in Panels : HostReceive(p)
    \/ \E p \in Panels : WebviewReceive(p)

SpecAdapter == Init /\ [][NextAdapter]_vars

(***************************************************************************)
(* SpecClient: one client on an arbitrary transport.                       *)
(***************************************************************************)
TheClient == "c"

\* The snapshot the broadcast with version serverSeq carries: every version is
\* one broadcast of the host, redelivered with the content it had.
TransportSnapshot(serverSeq) == Snapshot(serverSeq, InitialLabel)

\* The broadcasts SpecClient's transport delivers, in any order, any number
\* of times.
TransportBroadcasts ==
    {[snapshot |-> TransportSnapshot(v), serverSeq |-> v, echoClientSeq |-> e] :
        v \in 1..MaxServerSeq, e \in {undefined} \cup 1..MaxSends}

\* The events SpecClient's client sends.
SentEvents == {"click"}

InitClient ==
    /\ \E kind \in Kinds, optimistic \in BOOLEAN,
          initialSnapshot \in {Null, Zero, InitialContext} :
          clients = (TheClient :> NewClient(kind, optimistic, initialSnapshot))
    /\ lastDelivery = NoDelivery
    /\ accepted = <<>>
    /\ lastDropped = undefined
    /\ InitSystem

\* The transport hands a broadcast to handleSnapshot.
Deliver(c, remoteSnapshot) ==
    LET stale == IsStale(remoteSnapshot.serverSeq, clients[c].lastServerSeq)
    IN /\ clients' = [clients EXCEPT ![c] = HandleSnapshot(@, remoteSnapshot)]
       /\ lastDelivery' = [op |-> IF stale THEN "stale" ELSE "accepted",
                           broadcast |-> remoteSnapshot]
       /\ accepted' = IF stale THEN accepted
                      ELSE Append(accepted, remoteSnapshot.serverSeq)
       /\ lastDropped' = IF stale THEN remoteSnapshot.serverSeq ELSE lastDropped
       /\ UNCHANGED system

\* send(event) on a transport that only carries the envelope away.
Send(c, event) ==
    /\ clients[c].clientSeqCounter < MaxSends
    /\ clients' = [clients EXCEPT ![c] = Enqueue(@, event)]
    /\ lastDelivery' =
          [op |-> "send",
           envelope |-> [event |-> event,
                         clientSeq |-> clients[c].clientSeqCounter + 1]]
    /\ UNCHANGED <<system, accepted, lastDropped>>

\* requestSnapshot() on such a transport.
RequestSnapshot(c) ==
    /\ clients' = clients
    /\ lastDelivery' = [op |-> "request"]
    /\ UNCHANGED <<system, accepted, lastDropped>>

NextClient ==
    \/ \E m \in TransportBroadcasts : Deliver(TheClient, m)
    \/ \E e \in SentEvents : Send(TheClient, e)
    \/ RequestSnapshot(TheClient)

SpecClient == InitClient /\ [][NextClient]_vars

(***************************************************************************)
(* SpecTwin: useRemoteMachine, useRemoteMachineRunes with runes.derived    *)
(* and useRemoteMachineRunes without it, created with the same options and *)
(* given the same send calls and the same broadcasts, each client named by *)
(* its kind.                                                               *)
(***************************************************************************)
InitTwin ==
    /\ \E optimistic \in BOOLEAN, initialSnapshot \in {Null, InitialContext} :
          clients = [kind \in Kinds |-> NewClient(kind, optimistic, initialSnapshot)]
    /\ lastDelivery = NoDelivery
    /\ accepted = <<>>
    /\ lastDropped = undefined
    /\ InitSystem

\* The transport hands the broadcast to the handleSnapshot of each client.
DeliverAll(remoteSnapshot) ==
    /\ clients' = [kind \in Kinds |-> HandleSnapshot(clients[kind], remoteSnapshot)]
    /\ lastDelivery' = [op |-> "delivered", broadcast |-> remoteSnapshot]
    /\ UNCHANGED <<system, accepted, lastDropped>>

\* send(event) is called on each client.
SendAll(event) ==
    /\ \A kind \in Kinds : clients[kind].clientSeqCounter < MaxSends
    /\ clients' = [kind \in Kinds |-> Enqueue(clients[kind], event)]
    /\ lastDelivery' = [op |-> "send", event |-> event]
    /\ UNCHANGED <<system, accepted, lastDropped>>

\* requestSnapshot() is called on each client.
RequestSnapshotAll ==
    /\ clients' = clients
    /\ lastDelivery' = [op |-> "request"]
    /\ UNCHANGED <<system, accepted, lastDropped>>

NextTwin ==
    \/ \E m \in TransportBroadcasts : DeliverAll(m)
    \/ \E e \in SentEvents : SendAll(e)
    \/ RequestSnapshotAll

SpecTwin == InitTwin /\ [][NextTwin]_vars

\* What the API of a client exposes: state, connected, pendingCount.
Exposed(cl) == <<VisibleState(cl), cl.connected, PendingCount(cl)>>

\* C27: useRemoteMachine and useRemoteMachineRunes, with and without
\* runes.derived, created with the same options and given the same send calls
\* and broadcasts, expose the same state, connected and pendingCount after
\* every step.
C27_SameExposedValues ==
    \A a, b \in DOMAIN clients : Exposed(clients[a]) = Exposed(clients[b])

(***************************************************************************)
(* Properties of the client, under SpecClient.                             *)
(***************************************************************************)
Last(seq) == seq[Len(seq)]

\* Whether version v is greater than every version of seq.
NewerThanAll(v, seq) == \A i \in 1..Len(seq) : v > seq[i]

IsDelivery(d) == d.op \in {"accepted", "stale"}

\* C1: a broadcast is accepted if and only if its serverSeq is strictly greater
\* than every serverSeq accepted before it: the accepted versions are strictly
\* increasing, a dropped broadcast is not newer than all of them, and the
\* confirmed state is the value the last accepted version carried.
C1_MonotonicAcceptance ==
    LET cl == clients[TheClient]
    IN /\ \A i, j \in 1..Len(accepted) : i < j => accepted[i] < accepted[j]
       /\ lastDelivery.op = "accepted" =>
             /\ accepted # <<>>
             /\ Last(accepted) = lastDelivery.broadcast.serverSeq
       /\ lastDelivery.op = "stale" =>
             ~NewerThanAll(lastDelivery.broadcast.serverSeq, accepted)
       /\ accepted # <<>> =>
             /\ cl.baseState = TransportSnapshot(Last(accepted))
             /\ cl.lastServerSeq = Last(accepted)

\* C1, witness: versions 1, 3, 2, 5 were delivered; 2 was dropped, 1, 3, 5 were
\* accepted and the confirmed state is the value of version 5.
C1_Witness ==
    /\ accepted = <<1, 3, 5>>
    /\ lastDropped = 2
    /\ lastDelivery.op = "accepted"
    /\ lastDelivery.broadcast.serverSeq = 5
    /\ clients[TheClient].baseState = TransportSnapshot(5)

\* C2: handing the client a broadcast whose serverSeq is not greater than every
\* accepted one changes nothing of the client: confirmed state, highest
\* version, pending queue, connected flag, pending count, and no call of
\* onConnectionChange.
C2_StaleBroadcastChangesNothing ==
    [][(/\ IsDelivery(lastDelivery')
        /\ ~NewerThanAll(lastDelivery'.broadcast.serverSeq, accepted))
       => clients' = clients]_vars

\* C2, witness: a dropped broadcast whose echoClientSeq covers a pending entry.
C2_Witness ==
    /\ lastDelivery.op = "stale"
    /\ lastDelivery.broadcast.echoClientSeq # undefined
    /\ \E i \in 1..Len(clients[TheClient].pendingEvents) :
          clients[TheClient].pendingEvents[i].clientSeq
              <= lastDelivery.broadcast.echoClientSeq

\* C3: accepting a broadcast with echoClientSeq = N leaves exactly the pending
\* entries with clientSeq > N, in their order; accepting one without
\* echoClientSeq leaves the pending queue as it was.
C3_CumulativeAcknowledgment ==
    [][(/\ IsDelivery(lastDelivery')
        /\ NewerThanAll(lastDelivery'.broadcast.serverSeq, accepted))
       => LET N == lastDelivery'.broadcast.echoClientSeq
              old == clients[TheClient].pendingEvents
              new == clients'[TheClient].pendingEvents
          IN IF N = undefined THEN new = old
             ELSE \E k \in 0..Len(old) :
                     /\ new = SubSeq(old, k + 1, Len(old))
                     /\ \A i \in 1..k : old[i].clientSeq <= N
                     /\ \A i \in (k + 1)..Len(old) : old[i].clientSeq > N]_vars

\* C3, witness: ids 1, 2, 3 were sent and a broadcast with echoClientSeq 2 was
\* accepted: only id 3 is pending.
C3_Witness ==
    /\ lastDelivery.op = "accepted"
    /\ lastDelivery.broadcast.echoClientSeq = 2
    /\ clients[TheClient].clientSeqCounter = 3
    /\ clients[TheClient].pendingEvents = <<[event |-> "click", clientSeq |-> 3]>>

\* C5: with a prediction function, the visible state is the prediction folded
\* over the pending queue, in order, from the confirmed state.
C5_VisibleIsFold ==
    \A c \in DOMAIN clients :
        clients[c].optimistic =>
            VisibleState(clients[c])
                = Reduce(clients[c].pendingEvents, clients[c].baseState)

\* C6: without a prediction function, the visible state is the confirmed state.
C6_VisibleIsConfirmed ==
    \A c \in DOMAIN clients :
        ~clients[c].optimistic => VisibleState(clients[c]) = clients[c].baseState

\* C16: send gives the event the next clientSeq of a counter that starts at 1
\* and grows by 1, appends {event, clientSeq} at the tail of the pending queue
\* and publishes the envelope with that clientSeq; the pending queue is in the
\* order of sending, its clientSeq values strictly increasing.
C16_SendNumbersInOrder ==
    [][LET old == clients[TheClient]
           new == clients'[TheClient]
       IN /\ lastDelivery'.op = "send"
             => /\ new.clientSeqCounter = old.clientSeqCounter + 1
                /\ lastDelivery'.envelope.clientSeq = new.clientSeqCounter
                /\ new.pendingEvents =
                      Append(old.pendingEvents,
                             [event |-> lastDelivery'.envelope.event,
                              clientSeq |-> new.clientSeqCounter])
          /\ \A i \in 1..Len(new.pendingEvents) :
                /\ new.pendingEvents[i].clientSeq \in 1..new.clientSeqCounter
                /\ \A j \in 1..Len(new.pendingEvents) :
                      i < j => new.pendingEvents[i].clientSeq
                                  < new.pendingEvents[j].clientSeq]_vars

\* C16, witness: three sends, numbered 1, 2, 3, all pending in that order.
C16_Witness ==
    /\ lastDelivery.op = "send"
    /\ lastDelivery.envelope.clientSeq = 3
    /\ Len(clients[TheClient].pendingEvents) = 3
    /\ \A i \in 1..3 : clients[TheClient].pendingEvents[i].clientSeq = i

\* C17: when send returns on a client with a prediction function and a
\* confirmed state, the visible state is the prediction of the new action from
\* the visible state before, whether or not a broadcast has arrived.
C17_SendShowsPrediction ==
    [][LET old == clients[TheClient]
           new == clients'[TheClient]
       IN (/\ lastDelivery'.op = "send"
           /\ old.optimistic
           /\ ~Falsy(old.baseState))
          => VisibleState(new)
                = Reducer(VisibleState(old), lastDelivery'.envelope.event)]_vars

\* C18: the confirmed state and the highest version are written when a
\* broadcast is accepted, to that broadcast's values, and at no other time:
\* send leaves them, and requestSnapshot leaves the whole client, as they were.
C18_ConfirmedWrittenOnAcceptOnly ==
    [][LET old == clients[TheClient]
           new == clients'[TheClient]
       IN /\ (\/ new.baseState # old.baseState
              \/ new.lastServerSeq # old.lastServerSeq)
             => lastDelivery'.op = "accepted"
          /\ lastDelivery'.op = "accepted"
             => /\ new.baseState = lastDelivery'.broadcast.snapshot
                /\ new.lastServerSeq = lastDelivery'.broadcast.serverSeq
          /\ lastDelivery'.op = "send"
             => /\ new.baseState = old.baseState
                /\ new.lastServerSeq = old.lastServerSeq
                /\ new.connected = old.connected
          /\ lastDelivery'.op = "request" => new = old]_vars

\* C18, witness: requestSnapshot returned on a client whose visible state is a
\* prediction over version 2.
C18_Witness ==
    /\ lastDelivery.op = "request"
    /\ clients[TheClient].baseState = TransportSnapshot(2)
    /\ clients[TheClient].pendingEvents # <<>>
    /\ VisibleState(clients[TheClient]) # clients[TheClient].baseState

\* C25: the pendingCount a client exposes is the length of its pending queue,
\* in every state: for useRemoteMachine, for useRemoteMachineRunes with
\* runes.derived, and without it, where send and handleSnapshot keep the count.
C25_PendingCountIsQueueLength ==
    \A c \in DOMAIN clients :
        PendingCount(clients[c]) = Len(clients[c].pendingEvents)

\* C25, witness: a client without runes.derived has sent three actions and had
\* the first acknowledged: its count is 2.
C25_Witness ==
    /\ clients[TheClient].kind = "runesNoDerived"
    /\ clients[TheClient].clientSeqCounter = 3
    /\ lastDelivery.op = "accepted"
    /\ lastDelivery.broadcast.echoClientSeq = 1
    /\ Len(clients[TheClient].pendingEvents) = 2
    /\ PendingCount(clients[TheClient]) = 2

(***************************************************************************)
(* Properties of the wired system, under Spec.                             *)
(***************************************************************************)
Retired(c, k) ==
    /\ k \in 1..clients[c].clientSeqCounter
    /\ \A i \in 1..Len(clients[c].pendingEvents) :
          clients[c].pendingEvents[i].clientSeq # k

Applied(c, k) ==
    \E j \in 1..Len(applied) : applied[j].origin = c /\ applied[j].clientSeq = k

\* C4: an action a client no longer holds as pending is one the host has
\* applied: an acknowledgment retires only actions of the client it answers,
\* and only actions the host applied before it published the acknowledgment.
C4_RetiredOnlyIfApplied ==
    \A c \in DOMAIN clients : \A k \in 1..MaxSends : Retired(c, k) => Applied(c, k)

PublishMessage(topic, data) == [type |-> "publish", topic |-> topic, data |-> data]

NoRequestIn == requestsIssued' = requestsIssued /\ toHost' = toHost /\ published' = published

\* C7: a handler subscribed to the snapshot topic, and a panel attached, after
\* a payload was published gets the payload published last within the call,
\* and gets nothing when none was published; no snapshot request is issued.
C7_LateSubscriberGetsRetained ==
    [][/\ \A d \in DirectClients :
             (d \notin DOMAIN clients /\ d \in DOMAIN clients')
             => /\ NoRequestIn
                /\ IF published > 0
                   THEN /\ clients'[d].connected
                        /\ clients'[d].baseState = lastBroadcast.snapshot
                        /\ clients'[d].lastServerSeq = lastBroadcast.serverSeq
                   ELSE clients'[d] = NewClient("store", FALSE, Null)
       /\ \A p \in Panels :
             (~Contains(webviews, p) /\ Contains(webviews', p))
             => /\ NoRequestIn
                /\ toWebview'[p] =
                      IF published > 0
                      THEN Append(toWebview[p], PublishMessage(SnapshotTopic, lastBroadcast))
                      ELSE toWebview[p]]_vars

C7_Witness ==
    /\ replayed = DirectClients \cup Panels
    /\ \A d \in DirectClients : d \in DOMAIN clients /\ clients[d].connected
    /\ requestsIssued = 0
    /\ applied = <<>>

\* C8: every broadcast of the adapter, the first, one that answers an action
\* and one that answers a request, carries the version of the one before
\* plus one, the first the version 1.
C8_ServerSeqIncrements ==
    [][published' # published
       => /\ published' = published + 1
          /\ lastBroadcast'.serverSeq = lastBroadcast.serverSeq + 1]_vars

C8_Witness ==
    /\ published = 3
    /\ Len(applied) = 1
    /\ requestsIssued = 1
    /\ lastCause = "request"
    /\ lastBroadcast.serverSeq = 3

\* What the adapter does with an envelope.
Processed(envelope) ==
    /\ applied' = Append(applied, envelope)
    /\ actorState' = Transition(actorState, envelope.event)
    /\ published' = published + 1
    /\ lastBroadcast' = [snapshot |-> actorState',
                         serverSeq |-> lastBroadcast.serverSeq + 1,
                         echoClientSeq |-> envelope.clientSeq]

\* The panel's listener takes a message of the topic from the panel's webview.
Takes(p, topic) ==
    /\ toHost[p] # <<>>
    /\ Head(toHost[p]).topic = topic
    /\ toHost'[p] = Tail(toHost[p])

\* C9: the adapter applies every envelope it receives, when it receives it, and
\* then publishes one broadcast with the state after the action and the
\* envelope's clientSeq; envelopes are applied one at a time, in that order.
C9_EnvelopeAppliedThenBroadcast ==
    [][/\ \A p \in Panels :
             (wired /\ Takes(p, EventsTopic)) => Processed(Head(toHost[p]).data)
       /\ \A d \in DirectClients :
             (/\ wired
              /\ d \in DOMAIN clients
              /\ d \in DOMAIN clients'
              /\ clients'[d].clientSeqCounter # clients[d].clientSeqCounter)
             => \E e \in MachineEvents :
                   Processed([event |-> e,
                              clientSeq |-> clients[d].clientSeqCounter + 1,
                              origin |-> d])
       /\ applied' # applied
          => /\ Len(applied') = Len(applied) + 1
             /\ SubSeq(applied', 1, Len(applied)) = applied
             /\ published' = published + 1]_vars

C9_Witness ==
    /\ Len(applied) = 2
    /\ applied[1].origin # applied[2].origin
    /\ applied[1].event = "click"
    /\ applied[2].event = "click"
    /\ lastCause = "event"
    /\ lastBroadcast.snapshot.clickCount = 2
    /\ lastBroadcast.echoClientSeq = applied[2].clientSeq

\* What the adapter does with a snapshot request.
Answered ==
    /\ actorState' = actorState
    /\ applied' = applied
    /\ published' = published + 1
    /\ lastBroadcast' = [snapshot |-> actorState,
                         serverSeq |-> lastBroadcast.serverSeq + 1,
                         echoClientSeq |-> IF applied = <<>> THEN undefined
                                           ELSE Last(applied).clientSeq]

\* C10: the adapter answers a snapshot request with one broadcast: the state as
\* it is, the version of the broadcast before plus one, and the clientSeq of
\* the envelope applied last, none if none was; the state stays as it is.
C10_SnapshotRequestRebroadcasts ==
    [][/\ \A p \in Panels : (wired /\ Takes(p, RequestTopic)) => Answered
       /\ (wired /\ requestsIssued' # requestsIssued /\ toHost' = toHost)
          => Answered]_vars

C10_Witness ==
    /\ lastCause = "request"
    /\ applied # <<>>
    /\ lastBroadcast.echoClientSeq = Last(applied).clientSeq
    /\ lastBroadcast.snapshot = actorState
    /\ actorState.clickCount = 1

\* The snapshot payloads posted to the panel's webview in the step.
NewSnapshotsTo(p) ==
    {toWebview'[p][i].data : i \in {j \in (Len(toWebview[p]) + 1)..Len(toWebview'[p]) :
                                       toWebview'[p][j].topic = SnapshotTopic}}

\* The client's handleSnapshot accepted a payload in the step.
AcceptedIn(c) ==
    /\ c \in DOMAIN clients'
    /\ clients'[c].lastServerSeq # -1
    /\ c \in DOMAIN clients => clients'[c].lastServerSeq # clients[c].lastServerSeq

\* The payload the client holds after accepting one.
Holds(cl, data) ==
    cl.baseState = data.snapshot /\ cl.lastServerSeq = data.serverSeq

\* C22: the clients publish on the events and the request-snapshot topic only,
\* never on the snapshot topic: every payload retained for the snapshot topic,
\* posted to a webview on it or accepted by a client is one publishSnapshot
\* made, with the version publishSnapshot gave it.
C22_OnlyAdapterAssignsVersions ==
    /\ [](/\ \A p \in Panels : \A i \in 1..Len(toHost[p]) :
               toHost[p][i].topic \in {EventsTopic, RequestTopic}
          /\ SnapshotTopic \in DOMAIN retainedSnapshots
             => /\ published > 0
                /\ retainedSnapshots[SnapshotTopic] = lastBroadcast
          /\ \A p \in Panels : \A i \in 1..Len(toWebview[p]) :
               toWebview[p][i].topic = SnapshotTopic
               => toWebview[p][i].data.serverSeq \in 1..serverSeqCounter)
    /\ [][/\ \A p \in Panels : NewSnapshotsTo(p) \subseteq {lastBroadcast'}
          /\ \A d \in DirectClients :
                AcceptedIn(d) => Holds(clients'[d], lastBroadcast')
          /\ \A w \in WebClients :
                AcceptedIn(w)
                => /\ toWebview[w] # <<>>
                   /\ Head(toWebview[w]).topic = SnapshotTopic
                   /\ Holds(clients'[w], Head(toWebview[w]).data)]_vars

\* C22, witness: the webview client has sent an action and a snapshot request
\* through the host, and holds the payload retained for the snapshot topic,
\* the adapter's third.
C22_Witness ==
    /\ "w1" \in DOMAIN clients
    /\ Len(applied) = 1
    /\ applied[1].origin = "w1"
    /\ requestsIssued = 1
    /\ toHost["w1"] = <<>>
    /\ published = 3
    /\ retainedSnapshots[SnapshotTopic] = lastBroadcast
    /\ Holds(clients["w1"], lastBroadcast)

\* The adapter, wired and with nothing published but its initial broadcast,
\* processes its first envelope in the step.
FirstActionProcessed ==
    /\ wired
    /\ published = 1
    /\ applied = <<>>
    /\ applied' # <<>>

\* The client has its first action acknowledged: nothing it sent up to the
\* acknowledged action is pending, it is connected, and if it has sent nothing
\* since, its pending queue is empty and its visible state is the snapshot.
Acknowledged(cl, data) ==
    /\ cl.connected
    /\ cl.baseState = data.snapshot
    /\ \A i \in 1..Len(cl.pendingEvents) :
          cl.pendingEvents[i].clientSeq > data.echoClientSeq
    /\ cl.clientSeqCounter = data.echoClientSeq
       => /\ cl.pendingEvents = <<>>
          /\ PendingCount(cl) = 0
          /\ VisibleState(cl) = data.snapshot

\* The scenario of the first action, with the version its broadcast carries.
FirstActionScenario(version) ==
    /\ FirstActionProcessed
       => /\ lastBroadcast'.serverSeq = version
          /\ lastBroadcast'.echoClientSeq = applied'[1].clientSeq
          /\ lastBroadcast'.snapshot = Transition(InitialContext, applied'[1].event)
          /\ actorState' = lastBroadcast'.snapshot
          /\ \A d \in DirectClients :
                applied'[1].origin = d => Acknowledged(clients'[d], lastBroadcast')
    /\ \A w \in WebClients :
          (/\ w \in DOMAIN clients
           /\ applied # <<>>
           /\ applied[1].origin = w
           /\ toWebview[w] # <<>>
           /\ toWebview'[w] = Tail(toWebview[w])
           /\ Head(toWebview[w]).topic = SnapshotTopic
           /\ Head(toWebview[w]).data.serverSeq = version
           /\ Head(toWebview[w]).data.echoClientSeq = applied[1].clientSeq)
          => /\ Head(toWebview[w]).data.snapshot
                   = Transition(InitialContext, applied[1].event)
             /\ Acknowledged(clients'[w], Head(toWebview[w]).data)

\* C24, as claimed: the broadcast of the first action a freshly wired adapter
\* processes carries the version 1 and the action's clientSeq, and the client
\* that sent the action, on receiving it, has an empty pending queue, the new
\* host state as its visible state, and is connected.
C24_FirstActionIsVersionOne == [][FirstActionScenario(1)]_vars

\* C24, amended: the same with the version 2, the adapter's initial broadcast
\* having taken the version 1.
C24_FirstActionIsVersionTwo == [][FirstActionScenario(2)]_vars

\* C24, witness: the webview client sent one click, the first action of the
\* adapter, and has received its broadcast, the version 2.
C24_Witness ==
    /\ "w1" \in DOMAIN clients
    /\ applied # <<>>
    /\ applied[1] = [event |-> "click", clientSeq |-> 1, origin |-> "w1"]
    /\ clients["w1"].clientSeqCounter = 1
    /\ clients["w1"].lastServerSeq = 2
    /\ clients["w1"].connected
    /\ clients["w1"].pendingEvents = <<>>
    /\ VisibleState(clients["w1"]) = Snapshot(1, InitialLabel)

\* C29: a client created in a webview after its panel was attached and the
\* host published a snapshot is connected and holds the retained payload once
\* the messages posted to its webview are handled, without a requestSnapshot
\* and without a further broadcast.
C29_LateWebviewClientGetsRetained ==
    \A w \in WebClients :
        (/\ w \in DOMAIN clients
         /\ Contains(webviews, w)
         /\ SnapshotTopic \in DOMAIN retainedSnapshots
         /\ toWebview[w] = <<>>)
        => /\ clients[w].connected
           /\ Holds(clients[w], retainedSnapshots[SnapshotTopic])

(***************************************************************************)
(* Properties of detaching, under SpecDetach.                              *)
(***************************************************************************)
Subscribed(h) == Contains(HandlersOf(Now, SnapshotTopic), h)

SubscribedNext(h) ==
    /\ SnapshotTopic \in DOMAIN topicHandlers'
    /\ Contains(topicHandlers'[SnapshotTopic], h)

\* The messages posted to the panel's webview in the step.
PostedTo(p, message) ==
    \E i \in (Len(toWebview[p]) + 1)..Len(toWebview'[p]) :
        toWebview'[p][i] = message

C11_FailedActionIsAcknowledged ==
    [][\A p \in Panels :
          (/\ wired
           /\ Takes(p, EventsTopic)
           /\ SendThrows(Head(toHost[p]).data.event))
          => /\ actorState' = actorState
             /\ serverSeqCounter' = serverSeqCounter
             /\ published' = published + 1
             /\ lastBroadcast'.snapshot = actorState
             /\ lastBroadcast'.echoClientSeq = Head(toHost[p]).data.clientSeq]_vars

\* Whether evaluating the client's prediction over its pending queue throws.
PredictionThrows(cl) ==
    /\ cl.optimistic
    /\ cl.reducer = "strict"
    /\ ~Falsy(cl.baseState)
    /\ ReduceStrict(cl.pendingEvents, cl.baseState) = Thrown

\* C12: when the prediction function throws, the visible state is the
\* confirmed state: reading it does not throw.
C12_ThrowingPredictionFallsBack ==
    \A c \in DOMAIN clients :
        PredictionThrows(clients[c])
        => VisibleState(clients[c]) = clients[c].baseState

\* C13: a publish whose handler throws still delivers the payload to every
\* other handler of the topic and to every attached panel.
C13_ThrowingHandlerIsIsolated ==
    [][\A p \in Panels :
          (wired /\ Takes(p, EventsTopic))
          => \A q \in Panels :
                Contains(webviews, q)
                => PostedTo(q, PublishMessage(EventsTopic, Head(toHost[p]).data))]_vars

\* C14: a subscriber gets the payloads of a topic in the order publish was
\* called with them: the broadcasts waiting for a panel's webview, which the
\* adapter published in the order of their serverSeq, are in that order.
C14_DeliveredInPublishOrder ==
    \A p \in Panels :
        \A i, j \in 1..Len(toWebview[p]) :
            (/\ i < j
             /\ toWebview[p][i].topic = SnapshotTopic
             /\ toWebview[p][j].topic = SnapshotTopic)
            => toWebview[p][i].data.serverSeq < toWebview[p][j].data.serverSeq

\* C15: a client is connected if and only if it has accepted a broadcast, and
\* handleSnapshot has reached its call of onConnectionChange once if the
\* client is connected and never if it is not.
C15_ConnectedOnceOnFirstAccept ==
    \A c \in DOMAIN clients :
        /\ clients[c].connected <=> clients[c].lastServerSeq # -1
        /\ clients[c].connectionChanges = IF clients[c].connected THEN 1 ELSE 0

(***************************************************************************)
(* Properties of progress, under SpecLive.                                 *)
(***************************************************************************)
NothingPending ==
    \A c \in DOMAIN clients : PendingCount(clients[c]) = 0

\* C20: with reliable delivery in order, every action a client has sent is
\* retired from its pending queue in the end: from some point on, when the
\* clients have stopped sending, every pending count is 0 and stays 0; with
\* one client and with a webview client and a host client on the same machine.
C20_EveryActionRetired == <>[]NothingPending

\* C20, witness: the webview client and the host client have both sent, and
\* nothing is pending or under way.
C20_Witness ==
    /\ \A c \in WebClients \cup DirectClients :
          c \in DOMAIN clients /\ clients[c].clientSeqCounter >= 1
    /\ NothingPending
    /\ \A p \in Panels : toHost[p] = <<>> /\ toWebview[p] = <<>>

\* No message is under way between a webview and the host.
Quiescent == \A p \in Panels : toHost[p] = <<>> /\ toWebview[p] = <<>>

\* The client holds the adapter's state and version.
Converged(c) ==
    /\ clients[c].baseState = actorState
    /\ VisibleState(clients[c]) = actorState
    /\ clients[c].lastServerSeq = serverSeqCounter

\* C21: with reliable delivery in order, whenever every message under way has
\* been handled, the confirmed state and the visible state of each connected
\* client are the adapter's state and the client's highest version is the
\* adapter's version counter; and once the clients have stopped sending, that
\* is how the system stays.
C21_ClientsConverge ==
    /\ [](Quiescent => \A c \in DOMAIN clients : clients[c].connected => Converged(c))
    /\ <>[]Quiescent

\* C21, witness: the webview client and the host client, both connected, have
\* each sent an action, every message was handled, and both hold the adapter's
\* state after the two actions.
C21_Witness ==
    /\ Quiescent
    /\ Len(applied) = 2
    /\ applied[1].origin # applied[2].origin
    /\ actorState.clickCount = 2
    /\ \A c \in WebClients \cup DirectClients :
          c \in DOMAIN clients /\ clients[c].connected /\ Converged(c)

(***************************************************************************)
(* Properties of the relay, under SpecRelay.                               *)
(***************************************************************************)
\* C23: whatever reaches publish on the snapshot topic, from the adapter or
\* forwarded from a webview, the serverSeq of the payload retained for the
\* topic never decreases.
C23_RetainedVersionNeverDecreases ==
    [][(SnapshotTopic \in DOMAIN retainedSnapshots)
       => (retainedSnapshots'[SnapshotTopic].serverSeq
              >= retainedSnapshots[SnapshotTopic].serverSeq)]_vars

(***************************************************************************)
(* Properties of a client on the broker itself, under SpecDetach.          *)
(***************************************************************************)
\* The client on the broker calls send in the step.
SendsIn(d) ==
    /\ d \in DOMAIN clients
    /\ d \in DOMAIN clients'
    /\ clients'[d].clientSeqCounter = clients[d].clientSeqCounter + 1

\* C26: a client subscribed to the broker the adapter is wired to gets the
\* acknowledgment of an action inside send: the action is queued before it is
\* published, so the broadcast that acknowledges it finds it in the queue, and
\* when send returns the host has applied the action and the client holds the
\* broadcast and no pending action.
C26_AcknowledgedInsideSend ==
    [][\A d \in DirectClients :
          (wired /\ SendsIn(d) /\ Subscribed(d))
          => /\ clients'[d].pendingEvents = <<>>
             /\ applied' # <<>>
             /\ Last(applied').origin = d
             /\ Last(applied').clientSeq = clients'[d].clientSeqCounter
             /\ lastBroadcast'.echoClientSeq = clients'[d].clientSeqCounter
             /\ lastBroadcast'.serverSeq = lastBroadcast.serverSeq + 1
             /\ Holds(clients'[d], lastBroadcast')]_vars

\* C26, witness: the client on the broker has sent two actions, both applied
\* and acknowledged when send returned.
C26_Witness ==
    /\ "d" \in DOMAIN clients
    /\ clients["d"].clientSeqCounter = 2
    /\ clients["d"].pendingEvents = <<>>
    /\ Len(applied) = 2
    /\ \A i \in 1..2 : applied[i].origin = "d" /\ applied[i].clientSeq = i
    /\ lastCause = "event"
    /\ Holds(clients["d"], lastBroadcast)

(***************************************************************************)
(* Properties of the adapter, under SpecAdapter.                           *)
(***************************************************************************)
\* The transition folded over the envelopes, the first first.
RECURSIVE FoldTransition(_, _)
FoldTransition(envelopes, state) ==
    IF envelopes = <<>> THEN state
    ELSE FoldTransition(Tail(envelopes), Transition(state, Head(envelopes).event))

\* C28: the adapter's version counter is 1, for its initial broadcast, plus
\* the number of envelopes it received plus the number of snapshot requests
\* it received, and its state is the transition folded over the envelopes in
\* the order received; it applies every envelope it receives, one with a
\* clientSeq it has seen before as well, and publishes a broadcast for it.
C28_CounterCountsEveryMessage ==
    /\ [](/\ serverSeqCounter =
                IF wired THEN 1 + Len(applied) + requestsReceived ELSE 0
          /\ actorState = FoldTransition(applied, InitialContext))
    /\ [][\A p \in Panels :
             /\ (wired /\ Takes(p, EventsTopic))
                => /\ Processed(Head(toHost[p]).data)
                   /\ serverSeqCounter' = serverSeqCounter + 1
                   /\ requestsReceived' = requestsReceived
             /\ (wired /\ Takes(p, RequestTopic))
                => /\ Answered
                   /\ serverSeqCounter' = serverSeqCounter + 1
                   /\ requestsReceived' = requestsReceived + 1]_vars

\* C28, witness: the adapter received the same envelope twice and a snapshot
\* request: it applied the click twice and its counter is 4.
C28_Witness ==
    /\ Len(applied) = 2
    /\ applied[1] = applied[2]
    /\ applied[1].event = "click"
    /\ requestsReceived = 1
    /\ serverSeqCounter = 4
    /\ actorState.clickCount = 2

=============================================================================
